---- MODULE Spec2Model ----
(***************************************************************************)
(* Model of ICARTTReader (src/icartt_reader.py).                           *)
(*                                                                         *)
(* Text is modelled as sequences of one-character strings, so that the     *)
(* string operations the reader relies on (strip, split, int, str,         *)
(* slicing) are computed as Python computes them.  A file is a sequence of *)
(* lines plus a flag telling whether the last line is newline-terminated.  *)
(***************************************************************************)
EXTENDS Integers, Sequences, FiniteSets, TLC

----------------------------------------------------------------------------
(* Python string primitives                                                *)

\* characters str.strip() / str.split() treat as whitespace
Whitespace == {" ", "\t", "\n"}

DigitChars == <<"0", "1", "2", "3", "4", "5", "6", "7", "8", "9">>

DigitSet == {DigitChars[i] : i \in 1..10}

DigitVal(c) == (CHOOSE i \in 1..10 : DigitChars[i] = c) - 1

Max(a, b) == IF a >= b THEN a ELSE b

Min(a, b) == IF a <= b THEN a ELSE b

Abs(n) == IF n < 0 THEN -n ELSE n

\* str.lstrip()
RECURSIVE lstrip(_)
lstrip(s) ==
    IF s # <<>> /\ Head(s) \in Whitespace THEN lstrip(Tail(s)) ELSE s

\* str.rstrip()
RECURSIVE rstrip(_)
rstrip(s) ==
    IF s # <<>> /\ s[Len(s)] \in Whitespace
    THEN rstrip(SubSeq(s, 1, Len(s) - 1))
    ELSE s

\* str.strip()
strip(s) == rstrip(lstrip(s))

\* str.rstrip("\n")
RECURSIVE rstrip_nl(_)
rstrip_nl(s) ==
    IF s # <<>> /\ s[Len(s)] = "\n"
    THEN rstrip_nl(SubSeq(s, 1, Len(s) - 1))
    ELSE s

\* str.split(sep): always at least one part
RECURSIVE split(_, _)
split(s, sep) ==
    IF \E i \in 1..Len(s) : s[i] = sep
    THEN LET i == CHOOSE k \in 1..Len(s) :
                      s[k] = sep /\ \A j \in 1..(k - 1) : s[j] # sep
         IN  <<SubSeq(s, 1, i - 1)>> \o split(SubSeq(s, i + 1, Len(s)), sep)
    ELSE <<s>>

\* str.split() without argument: runs of whitespace separate, no empty part
RECURSIVE split_ws(_)
split_ws(s) ==
    LET t == lstrip(s)
    IN  IF t = <<>>
        THEN <<>>
        ELSE LET stops == {k \in 1..Len(t) : t[k] \in Whitespace}
                 n == IF stops = {}
                      THEN Len(t)
                      ELSE (CHOOSE k \in stops : \A j \in stops : k <= j) - 1
             IN  <<SubSeq(t, 1, n)>> \o split_ws(SubSeq(t, n + 1, Len(t)))

\* str.replace(old, new) for single characters
replace(s, old, new) == [i \in 1..Len(s) |-> IF s[i] = old THEN new ELSE s[i]]

\* sep.join(parts)
RECURSIVE join(_, _)
join(parts, sep) ==
    IF parts = <<>>
    THEN <<>>
    ELSE IF Len(parts) = 1
         THEN parts[1]
         ELSE parts[1] \o <<sep>> \o join(Tail(parts), sep)

\* str.isdigit() (ASCII digits)
isdigit(s) == s # <<>> /\ \A i \in 1..Len(s) : s[i] \in DigitSet

\* the digits of an int() literal after its sign: digits, single underscores
\* allowed between digits
IntBodyOK(u) ==
    /\ u # <<>>
    /\ u[1] \in DigitSet
    /\ u[Len(u)] \in DigitSet
    /\ \A i \in 1..Len(u) : u[i] \in DigitSet \cup {"_"}
    /\ \A i \in 1..(Len(u) - 1) : ~(u[i] = "_" /\ u[i + 1] = "_")

RECURSIVE DigitsValue(_, _)
DigitsValue(u, acc) ==
    IF u = <<>>
    THEN acc
    ELSE IF Head(u) = "_"
         THEN DigitsValue(Tail(u), acc)
         ELSE DigitsValue(Tail(u), 10 * acc + DigitVal(Head(u)))

IntUnsigned(s) ==
    LET t == strip(s)
    IN  IF t # <<>> /\ t[1] \in {"+", "-"} THEN Tail(t) ELSE t

\* int(s) succeeds (otherwise it raises ValueError)
int_ok(s) == IntBodyOK(IntUnsigned(s))

\* int(s), for int_ok(s)
int(s) ==
    LET t == strip(s)
        v == DigitsValue(IntUnsigned(s), 0)
    IN  IF t[1] = "-" THEN -v ELSE v

RECURSIVE NatStr(_)
NatStr(n) ==
    IF n < 10
    THEN <<DigitChars[n + 1]>>
    ELSE NatStr(n \div 10) \o <<DigitChars[(n % 10) + 1]>>

\* str(n) for an int
str(n) == IF n < 0 THEN <<"-">> \o NatStr(-n) ELSE NatStr(n)

\* seq[start:stop] with Python's treatment of negative and oversized indices
SliceIndex(i, n) == IF i < 0 THEN Max(i + n, 0) ELSE Min(i, n)

slice(seq, start, stop) ==
    LET lo == SliceIndex(start, Len(seq))
        hi == SliceIndex(stop, Len(seq))
    IN  IF hi <= lo THEN <<>> ELSE SubSeq(seq, lo + 1, hi)

----------------------------------------------------------------------------
(* Files and paths                                                         *)

\* The absent value of an Optional[...] field or argument; a one-element
\* sequence holding a word, so it differs from every text.
None == <<"None">>

\* A file's text: its lines without terminators, and whether the last line
\* ends with a newline.  Text mode with universal newlines: a line read from
\* it ends in at most one "\n".
NoFile == [lines |-> <<>>, nl |-> FALSE, exists |-> FALSE]

FileOf(lines, nl) == [lines |-> lines, nl |-> nl, exists |-> TRUE]

\* the k-th f.readline() on a freshly opened file (k >= 1); "" at end of file
readline(c, k) ==
    IF k > Len(c.lines)
    THEN <<>>
    ELSE IF k < Len(c.lines) \/ c.nl
         THEN c.lines[k] \o <<"\n">>
         ELSE c.lines[k]

\* pathlib: a path is its name without the last suffix, and that suffix
PathOf(stem, suffix) == [stem |-> stem, suffix |-> suffix]

\* str(path)
path_str(p) == p.stem \o p.suffix

\* Path.with_suffix(suffix)
with_suffix(p, suffix) == [stem |-> p.stem, suffix |-> suffix]

CsvSuffix == <<".", "c", "s", "v">>

ParquetSuffix == <<".", "p", "a", "r", "q", "u", "e", "t">>

IctSuffix == <<".", "i", "c", "t">>

----------------------------------------------------------------------------
(* ICARTTReader: the pure part of every method, as a function of the file  *)
(* text found at self.path and of self.info                                *)

\* _read_info, the split of line 1
InfoParts(c) ==
    LET line1 == strip(readline(c, 1))
        raw == split(line1, ",")
    IN  [i \in 1..Len(raw) |-> strip(raw[i])]

\* _read_info returns (it raises ValueError otherwise)
read_info_ok(c) == Len(InfoParts(c)) >= 2 /\ int_ok(InfoParts(c)[1])

\* _read_info's ICARTTInfo
read_info(p, c) ==
    [path |-> p, header_length |-> int(InfoParts(c)[1]), ffi |-> InfoParts(c)[2]]

\* mutant of read_header_lines: the loop runs once too often
read_header_lines_OneMore(c, inf) ==
    LET n == inf.header_length + 1
        eof == {k \in 1..n : readline(c, k) = <<>>}
        count == IF eof = {}
                 THEN Max(n, 0)
                 ELSE (CHOOSE k \in eof : \A j \in eof : k <= j) - 1
    IN  [k \in 1..count |-> rstrip_nl(readline(c, k))]

\* read_header_lines: the loop runs n times unless a readline returns ""
\* first; every line read loses its trailing newlines
read_header_lines(c, inf) ==
    LET n == inf.header_length
        eof == {k \in 1..n : readline(c, k) = <<>>}
        count == IF eof = {}
                 THEN Max(n, 0)
                 ELSE (CHOOSE k \in eof : \A j \in eof : k <= j) - 1
    IN  [k \in 1..count |-> rstrip_nl(readline(c, k))]

\* read_metadata's safe(i), i a 0-based index
safe(lines, i) ==
    IF 0 <= i /\ i < Len(lines) THEN strip(lines[i + 1]) ELSE <<>>

\* the conventional positions of read_metadata
MetaPosition ==
    [pi |-> 1, organization |-> 2, data_description |-> 3, mission |-> 4,
     volume_info |-> 5, date_info |-> 6, data_interval |-> 7,
     independent_variable |-> 8]

MetaKeys == {"path", "header_length", "ffi"} \cup DOMAIN MetaPosition

\* the dict read_metadata fills before it drops the empty values
MetaAll(c, inf) ==
    LET lines == read_header_lines(c, inf)
    IN  [k \in MetaKeys |->
            CASE k = "path" -> path_str(inf.path)
              [] k = "header_length" -> str(inf.header_length)
              [] k = "ffi" -> inf.ffi
              [] OTHER -> safe(lines, MetaPosition[k])]

\* mutant of read_metadata: the empty values are not dropped
read_metadata_KeepEmpty(c, inf) == MetaAll(c, inf)

\* read_metadata: a dict is a function on its keys
read_metadata(c, inf) ==
    LET meta == MetaAll(c, inf)
        keep == {k \in MetaKeys : meta[k] # <<>>}
    IN  [k \in keep |-> meta[k]]

\* x or None
OrNone(x) == IF x = <<>> \/ x = None THEN None ELSE x

\* _guess_per_variable_missing: always {}
guess_per_variable_missing == {}

MinHeaderLines == 11

VarCountIndex == 9

VarBlockStart == 12

\* mutant of VarDefOf: the tokens are not trimmed
VarDefOf_NoStrip(ln) ==
    LET parts == split(ln, ",")
        unit == IF Len(parts) > 1 THEN parts[2] ELSE None
        desc == IF Len(parts) > 2
                THEN strip(join(SubSeq(parts, 3, Len(parts)), ","))
                ELSE None
    IN  [name |-> parts[1], unit |-> OrNone(unit),
         description |-> OrNone(desc), missing |-> None]

\* one VariableDef from one line of the block
VarDefOf(ln) ==
    LET raw == split(ln, ",")
        parts == [i \in 1..Len(raw) |-> strip(raw[i])]
        unit == IF Len(parts) > 1 THEN parts[2] ELSE None
        desc == IF Len(parts) > 2
                THEN strip(join(SubSeq(parts, 3, Len(parts)), ","))
                ELSE None
    IN  [name |-> parts[1], unit |-> OrNone(unit),
         description |-> OrNone(desc), missing |-> None]

read_variable_defs(c, inf) ==
    LET lines == read_header_lines(c, inf)
    IN  IF Len(lines) < MinHeaderLines
        THEN <<>>
        ELSE IF ~int_ok(strip(lines[VarCountIndex + 1]))
             THEN <<>>
             ELSE LET n_dep == int(strip(lines[VarCountIndex + 1]))
                      block == slice(lines, VarBlockStart, VarBlockStart + n_dep)
                      out == [i \in 1..Len(block) |-> VarDefOf(block[i])]
                  IN  IF guess_per_variable_missing # {}
                      THEN [i \in 1..Len(out) |->
                               [out[i] EXCEPT !.missing = None]]
                      ELSE out

ScanLimit == 200

SentinelMagnitude == 999

\* the fallback of _guess_missing_values
CommonSentinels == <<-9999, -99999, -8888, 9999, 99999>>

\* the values one header line contributes, in token order
LineCandidates(ln) ==
    LET toks == split_ws(replace(ln, ",", " "))
        good(tok) ==
            /\ tok[1] \in {"-", "+"}
            /\ isdigit(Tail(tok))
            /\ Abs(int(tok)) >= SentinelMagnitude
    IN  SelectSeq(toks, good)

\* the candidates of all scanned lines, in file order (the recursion halves
\* the lines)
RECURSIVE Candidates(_)
Candidates(lines) ==
    IF lines = <<>>
    THEN <<>>
    ELSE IF Len(lines) = 1
         THEN LET toks == LineCandidates(lines[1])
              IN  [i \in 1..Len(toks) |-> int(toks[i])]
         ELSE LET h == Len(lines) \div 2
              IN  Candidates(SubSeq(lines, 1, h))
                      \o Candidates(SubSeq(lines, h + 1, Len(lines)))

\* mutant of Dedup: the last occurrence is kept
Dedup_KeepLast(seq) ==
    LET lasts == {i \in 1..Len(seq) : \A j \in (i + 1)..Len(seq) : seq[j] # seq[i]}
        keep(i) == i \in lasts
        idx == SelectSeq([i \in 1..Len(seq) |-> i], keep)
    IN  [k \in 1..Len(idx) |-> seq[idx[k]]]

\* de-duplication keeping the first occurrence
Dedup(seq) ==
    LET firsts == {i \in 1..Len(seq) : \A j \in 1..(i - 1) : seq[j] # seq[i]}
        keep(i) == i \in firsts
        idx == SelectSeq([i \in 1..Len(seq) |-> i], keep)
    IN  [k \in 1..Len(idx) |-> seq[idx[k]]]

\* mutant of guess_missing_values: the common sentinels are always added
guess_missing_values_PlusDefaults(c, inf) ==
    LET lines == read_header_lines(c, inf)
        scanned == slice(lines, 0, Min(Len(lines), ScanLimit))
    IN  Dedup(Candidates(scanned) \o CommonSentinels)

guess_missing_values(c, inf) ==
    LET lines == read_header_lines(c, inf)
        scanned == slice(lines, 0, Min(Len(lines), ScanLimit))
        ordered == Dedup(Candidates(scanned))
    IN  IF ordered = <<>> THEN CommonSentinels ELSE ordered

----------------------------------------------------------------------------
(* The tabular-data engine: pd.read_csv(engine="python", sep=",",          *)
(* skiprows=..., na_values=...), DataFrame.to_csv(index=False) and         *)
(* DataFrame.to_parquet, as far as read_table and the exports use them.    *)
(* Cells are kept as their raw text; a missing cell is None.               *)

\* outcomes of a call that raises
Raised(kind) == [raised |-> kind]

IsRaised(r) == DOMAIN r = {"raised"}

Quote == "\""

\* a field written as "..." is read without its quotes
Unquote(f) ==
    IF Len(f) >= 2 /\ f[1] = Quote /\ f[Len(f)] = Quote
    THEN SubSeq(f, 2, Len(f) - 1)
    ELSE f

CsvFields(ln) ==
    LET raw == split(ln, ",")
    IN  IF ln = <<>> THEN <<>> ELSE [i \in 1..Len(raw) |-> Unquote(raw[i])]

\* skip_blank_lines: a line without fields, or with one field that is blank
IsBlankRow(fields) ==
    Len(fields) = 0 \/ (Len(fields) = 1 /\ strip(fields[1]) = <<>>)

\* the members of the engine's default missing markers
DefaultNaStrings ==
    {<<>>, <<"N", "A">>, <<"N", "a", "N">>, <<"n", "a", "n">>,
     <<"N", "U", "L", "L">>, <<"n", "u", "l", "l">>, <<"N", "o", "n", "e">>}

\* the raw texts an integer na_value matches: "v" and "v.0"
NaStrings(na) ==
    DefaultNaStrings
        \cup {str(na[i]) : i \in 1..Len(na)}
        \cup {str(na[i]) \o <<".", "0">> : i \in 1..Len(na)}

\* column names: an empty name becomes "Unnamed: i", the k-th repetition of
\* a name becomes "name.k"
ColumnNames(header) ==
    LET named == [i \in 1..Len(header) |->
                     IF header[i] = <<>>
                     THEN <<"U", "n", "n", "a", "m", "e", "d", ":", " ">>
                              \o str(i - 1)
                     ELSE header[i]]
        seen(i) == Cardinality({j \in 1..(i - 1) : named[j] = named[i]})
    IN  [i \in 1..Len(named) |->
            IF seen(i) = 0 THEN named[i] ELSE named[i] \o <<".">> \o str(seen(i))]

parse_csv(c, skiprows, na) ==
    LET body == SubSeq(c.lines, skiprows + 1, Len(c.lines))
        fields == [i \in 1..Len(body) |-> CsvFields(body[i])]
        keep(f) == ~IsBlankRow(f)
        rows == SelectSeq(fields, keep)
    IN  IF rows = <<>>
        THEN Raised("EmptyDataError")
        ELSE LET header == rows[1]
                 data == Tail(rows)
                 ncols == Len(header)
                 \* a first row longer than the header: its extra leading
                 \* cells are the row labels
                 nidx == IF data # <<>> /\ Len(data[1]) > ncols
                         THEN Len(data[1]) - ncols
                         ELSE 0
                 nas == NaStrings(na)
                 cell(r, j) == IF j > Len(r) \/ r[j] \in nas THEN None ELSE r[j]
             IN  IF \E i \in 1..Len(data) : Len(data[i]) > ncols + nidx
                 THEN Raised("ParserError")
                 ELSE [columns |-> ColumnNames(header),
                       index |-> [i \in 1..Len(data) |->
                                     [j \in 1..nidx |-> data[i][j]]],
                       rows |-> [i \in 1..Len(data) |->
                                    [j \in 1..ncols |-> cell(data[i], nidx + j)]]]

\* na_values: not given (None), or a list of numbers
NaNotGiven == [given |-> FALSE, values |-> <<>>]

NaGiven(v) == [given |-> TRUE, values |-> v]

read_table(c, inf, na_values, strip_colnames) ==
    LET skiprows == Max(inf.header_length - 1, 0)
        na == IF na_values.given
              THEN na_values.values
              ELSE guess_missing_values(c, inf)
        df == parse_csv(c, skiprows, na)
    IN  IF IsRaised(df)
        THEN df
        ELSE IF strip_colnames
             THEN [df EXCEPT !.columns =
                      [i \in 1..Len(df.columns) |-> strip(df.columns[i])]]
             ELSE df

Unsigned(s) == IF s # <<>> /\ s[1] \in {"+", "-"} THEN Tail(s) ELSE s

IsIntText(s) == isdigit(Unsigned(s))

IsFloatText(s) ==
    LET u == Unsigned(s)
        parts == split(u, ".")
    IN  /\ Len(parts) <= 2
        /\ \E i \in 1..Len(u) : u[i] \in DigitSet
        /\ \A i \in 1..Len(u) : u[i] \in DigitSet \cup {"."}

RECURSIVE StripLeadingZeros(_)
StripLeadingZeros(s) ==
    IF Len(s) > 1 /\ s[1] = "0" THEN StripLeadingZeros(Tail(s)) ELSE s

RECURSIVE StripTrailingZeros(_)
StripTrailingZeros(s) ==
    IF Len(s) > 1 /\ s[Len(s)] = "0"
    THEN StripTrailingZeros(SubSeq(s, 1, Len(s) - 1))
    ELSE s

\* the text to_csv writes for a float64 cell read from text s
FloatRepr(s) ==
    LET parts == split(Unsigned(s), ".")
        whole == IF parts[1] = <<>> THEN <<"0">> ELSE StripLeadingZeros(parts[1])
        frac == IF Len(parts) < 2 \/ parts[2] = <<>>
                THEN <<"0">>
                ELSE StripTrailingZeros(parts[2])
    IN  (IF s[1] = "-" THEN <<"-">> ELSE <<>>) \o whole \o <<".">> \o frac

\* the text to_csv writes for an int64 cell read from text s
IntRepr(s) ==
    LET v == DigitsValue(Unsigned(s), 0)
    IN  str(IF s[1] = "-" THEN -v ELSE v)

\* the dtype the engine infers for column j
ColumnKind(df, j) ==
    LET cells == {df.rows[i][j] : i \in 1..Len(df.rows)}
    IN  IF \E x \in cells : x # None /\ ~IsFloatText(x)
        THEN "object"
        ELSE IF cells # {} /\ \A x \in cells : x # None /\ IsIntText(x)
             THEN "int64"
             ELSE "float64"

\* one written row: a row of one empty field is written as ""
CsvRow(fields) ==
    IF Len(fields) = 1 /\ fields[1] = <<>>
    THEN <<Quote, Quote>>
    ELSE join(fields, ",")

\* the text DataFrame.to_csv(path, index=False) writes
csv_text(df) ==
    LET ncols == Len(df.columns)
        kind == [j \in 1..ncols |-> ColumnKind(df, j)]
        text(i, j) ==
            LET x == df.rows[i][j]
            IN  IF x = None
                THEN <<>>
                ELSE CASE kind[j] = "object" -> x
                       [] kind[j] = "int64" -> IntRepr(x)
                       [] OTHER -> FloatRepr(x)
    IN  FileOf(<<CsvRow(df.columns)>>
                   \o [i \in 1..Len(df.rows) |->
                          CsvRow([j \in 1..ncols |-> text(i, j)])],
               TRUE)

\* DataFrame.to_parquet writes a binary file; read back as text it is one
\* unterminated line starting with the format's magic bytes
parquet_text(df) == FileOf(<<<<"P", "A", "R", "1">>>>, FALSE)

----------------------------------------------------------------------------
(* The input files the behaviours start from.  Every text below is written *)
(* character by character; the name says what it spells.                   *)

\* "15,1001"
First15 ==
    <<"1", "5", ",", "1", "0", "0", "1">>

\* "13,1001"
First13 ==
    <<"1", "3", ",", "1", "0", "0", "1">>

\* "14,1001"
First14 ==
    <<"1", "4", ",", "1", "0", "0", "1">>

\* "0,1001"
First0 ==
    <<"0", ",", "1", "0", "0", "1">>

\* "-5,1001"
FirstNeg ==
    <<"-", "5", ",", "1", "0", "0", "1">>

\* "x,1001"
FirstWord ==
    <<"x", ",", "1", "0", "0", "1">>

\* "13"
FirstOneToken ==
    <<"1", "3">>

\* ""
FirstBlank ==
    <<>>

\* " 1_5 , 1001 ,V02"
FirstSpaced ==
    <<" ", "1", "_", "5", " ", ",", " ", "1", "0", "0", "1", " ", ",",
    "V", "0", "2">>

\* "3,"
FirstNoFfi ==
    <<"3", ",">>

\* "202,1001"
First202 ==
    <<"2", "0", "2", ",", "1", "0", "0", "1">>

\* "Doe, J."
LinePi ==
    <<"D", "o", "e", ",", " ", "J", ".">>

\* "NASA"
LineOrg ==
    <<"N", "A", "S", "A">>

\* "soot"
LineDesc ==
    <<"s", "o", "o", "t">>

\* "DAQ"
LineMission ==
    <<"D", "A", "Q">>

\* "1, 1"
LineVolume ==
    <<"1", ",", " ", "1">>

\* "2014, 08, 02"
LineDate ==
    <<"2", "0", "1", "4", ",", " ", "0", "8", ",", " ", "0", "2">>

\* "0"
LineInterval ==
    <<"0">>

\* "time, s"
LineIndep ==
    <<"t", "i", "m", "e", ",", " ", "s">>

\* "2"
LineCount2 ==
    <<"2">>

\* "1, 1"
LineScale ==
    <<"1", ",", " ", "1">>

\* "-9999, -9999"
LineMissing ==
    <<"-", "9", "9", "9", "9", ",", " ", "-", "9", "9", "9", "9">>

\* "TEMP, degC, Ambient temperature"
LineTemp ==
    <<"T", "E", "M", "P", ",", " ", "d", "e", "g", "C", ",", " ", "A",
    "m", "b", "i", "e", "n", "t", " ", "t", "e", "m", "p", "e", "r", "a",
    "t", "u", "r", "e">>

\* "PRES, hPa, "
LinePres ==
    <<"P", "R", "E", "S", ",", " ", "h", "P", "a", ",", " ">>

\* "time,temp,pres"
LineColumns ==
    <<"t", "i", "m", "e", ",", "t", "e", "m", "p", ",", "p", "r", "e",
    "s">>

\* "0,-9999,1013.2"
Row0 ==
    <<"0", ",", "-", "9", "9", "9", "9", ",", "1", "0", "1", "3", ".",
    "2">>

\* "1,20.5,-8888"
Row1 ==
    <<"1", ",", "2", "0", ".", "5", ",", "-", "8", "8", "8", "8">>

\* "2,21,1013.0"
Row2 ==
    <<"2", ",", "2", "1", ",", "1", "0", "1", "3", ".", "0">>

\* " \t"
LineSpaces ==
    <<" ", "\t">>

\* "0"
LineCount0 ==
    <<"0">>

\* "-1"
LineCountMinus1 ==
    <<"-", "1">>

\* "-13"
LineCountMinus13 ==
    <<"-", "1", "3">>

\* " 3 "
LineCount3Spaced ==
    <<" ", "3", " ">>

\* "two"
LineCountWord ==
    <<"t", "w", "o">>

\* "-8888"
LineMissing8888 ==
    <<"-", "8", "8", "8", "8">>

\* "-9999 -99999 -8888 +9999 +99999"
LineMissingAll ==
    <<"-", "9", "9", "9", "9", " ", "-", "9", "9", "9", "9", "9", " ",
    "-", "8", "8", "8", "8", " ", "+", "9", "9", "9", "9", " ", "+", "9",
    "9", "9", "9", "9">>

\* "+1013 -999,-998 9999 --5 -1013.0 +01013"
LineMissingMixed ==
    <<"+", "1", "0", "1", "3", " ", "-", "9", "9", "9", ",", "-", "9",
    "9", "8", " ", "9", "9", "9", "9", " ", "-", "-", "5", " ", "-", "1",
    "0", "1", "3", ".", "0", " ", "+", "0", "1", "0", "1", "3">>

\* "-7777"
LineMissing7777 ==
    <<"-", "7", "7", "7", "7">>

\* "X"
LineVarBare ==
    <<"X">>

\* " , ,"
LineVarCommas ==
    <<" ", ",", " ", ",">>

\* "A,B,C, D"
LineVarLong ==
    <<"A", ",", "B", ",", "C", ",", " ", "D">>

\* "c"
LineFiller ==
    <<"c">>

\* the longest file of the prefix family, and the length of the full files
MaxLines == 18

DataRows == <<Row0, Row1, Row2>>

\* the conventional file: 15 header lines, the last one the column names,
\* then data rows
BaseHeader ==
    <<First15, LinePi, LineOrg, LineDesc, LineMission, LineVolume, LineDate,
      LineInterval, LineIndep, LineCount2, LineScale, LineMissing, LineTemp,
      LinePres, LineColumns>>

BaseLine(i) ==
    IF i <= Len(BaseHeader)
    THEN BaseHeader[i]
    ELSE DataRows[((i - Len(BaseHeader) - 1) % Len(DataRows)) + 1]

\* the base file cut to m lines, with line 1 and the lines of ov replaced;
\* ov maps 0-based line indices to texts
MakeFile(first, m, ov, nl) ==
    FileOf([i \in 1..m |->
               IF i = 1
               THEN first
               ELSE IF (i - 1) \in DOMAIN ov THEN ov[i - 1] ELSE BaseLine(i)],
           nl)

NoOverride == [i \in {} |-> <<>>]

\* a text file has no empty unterminated last line
WellFormed(c) ==
    IF c.lines = <<>> THEN ~c.nl ELSE c.nl \/ c.lines[Len(c.lines)] # <<>>

FirstLines ==
    {First15, First13, First14, First0, FirstNeg, FirstWord, FirstOneToken,
     FirstBlank, FirstSpaced, FirstNoFfi}

\* every first line over every prefix of the base file
PrefixFiles ==
    {c \in {MakeFile(f, m, NoOverride, nl) :
                f \in FirstLines, m \in 0..MaxLines, nl \in BOOLEAN} :
        WellFormed(c)}

CountLines ==
    {LineCount2, LineCount0, LineCountMinus1, LineCountMinus13,
     LineCount3Spaced, LineCountWord, <<>>}

VarBlocks ==
    {<<LineTemp, LinePres>>, <<<<>>, LineVarBare>>,
     <<LineVarCommas, LineVarLong>>}

\* the variable count and the variable block varied
VarCases ==
    {<<f, cnt, <<LineTemp, LinePres>>>> :
        f \in {First13, First14, First15}, cnt \in CountLines}
    \cup {<<f, cnt, b>> :
            f \in {First14, First15},
            cnt \in {LineCount2, LineCount3Spaced},
            b \in VarBlocks}

VarFiles ==
    {MakeFile(v[1], MaxLines,
              [i \in {9, 12, 13} |->
                  IF i = 9 THEN v[2] ELSE IF i = 12 THEN v[3][1] ELSE v[3][2]],
              TRUE) :
        v \in VarCases}

MetaProfiles ==
    {NoOverride,
     [i \in {2, 3, 8} |-> IF i = 3 THEN LineSpaces ELSE <<>>],
     [i \in {7} |-> LineMissing7777]}

MissingLines ==
    {LineMissing, LineMissing8888, <<>>, LineMissingAll, LineMissingMixed}

\* the header's sentinel-like tokens varied
MissingCases ==
    {<<First15, prof, m>> : prof \in MetaProfiles, m \in MissingLines}
    \cup {<<First13, NoOverride, m>> : m \in MissingLines}

MissingFiles ==
    {MakeFile(v[1], MaxLines,
              [i \in DOMAIN v[2] \cup {11} |->
                  IF i = 11 THEN v[3] ELSE v[2][i]],
              TRUE) :
        v \in MissingCases}

\* headers longer than the scan of _guess_missing_values: ScanLimit + 2
\* header lines, a sentinel-like token at the last scanned line or just
\* past it, the column names at the last header line
LongFiles ==
    {MakeFile(First202, ScanLimit + 4,
              [i \in 11..(ScanLimit + 1) |->
                  IF i = k
                  THEN LineMissing7777
                  ELSE IF i = ScanLimit + 1
                       THEN LineColumns
                       ELSE IF i \in {12, 13} THEN BaseLine(i + 1) ELSE LineFiller],
              TRUE) :
        k \in {ScanLimit - 1, ScanLimit}}

StemA == <<"a">>

InputPaths ==
    {PathOf(StemA, IctSuffix), PathOf(StemA, CsvSuffix),
     PathOf(StemA, ParquetSuffix), PathOf(StemA, <<>>)}

\* every path an export can write to
AllPaths == InputPaths

\* the reader's path and the file found there
Inputs ==
    {[path |-> PathOf(StemA, IctSuffix), file |-> c] :
        c \in PrefixFiles \cup VarFiles \cup MissingFiles \cup LongFiles}
    \cup {[path |-> p, file |-> MakeFile(f, MaxLines, NoOverride, TRUE)] :
            p \in InputPaths, f \in {First15, First13, First0}}

----------------------------------------------------------------------------
(* Arguments                                                               *)

\* the argument lists read_table is called with
TableArgs ==
    {[na |-> NaNotGiven, strip_colnames |-> TRUE, out |-> None],
     [na |-> NaNotGiven, strip_colnames |-> FALSE, out |-> None],
     [na |-> NaGiven(<<>>), strip_colnames |-> TRUE, out |-> None],
     [na |-> NaGiven(<<-8888>>), strip_colnames |-> TRUE, out |-> None]}

\* Path(text): the suffix starts at the last dot of the name, unless that
\* dot is the first or the last character
path_of_str(t) ==
    LET dots == {i \in 2..(Len(t) - 1) : t[i] = "."}
        d == CHOOSE i \in dots : \A j \in dots : j <= i
    IN  IF dots = {}
        THEN PathOf(t, <<>>)
        ELSE PathOf(SubSeq(t, 1, d - 1), SubSeq(t, d, Len(t)))

\* out: None, or a text naming a path
OutArgs(self_path) ==
    {None, path_str(self_path), StemA \o CsvSuffix}

\* mutant of out_path: the explicit destination is ignored
out_path_IgnoresOut(self_path, out, suffix) == with_suffix(self_path, suffix)

\* the destination to_csv / to_parquet resolve
out_path(self_path, out, suffix) ==
    IF out # None /\ out # <<>>
    THEN path_of_str(out)
    ELSE with_suffix(self_path, suffix)

----------------------------------------------------------------------------
(* The reader as a state machine                                           *)

VARIABLES
    fs,       \* the files: path -> text, NoFile where there is none
    path,     \* self.path
    info,     \* self.info
    pc,       \* "new" before __init__, then "ready", or "failed" if it raised
    lastOp,   \* the method called last
    lastArgs, \* its arguments
    result,   \* what it returned, or Raised(...)
    orig,     \* the text of the input file when the behaviour starts
    clobbered \* an export has resolved its destination to self.path

vars == <<fs, path, info, pc, lastOp, lastArgs, result, orig, clobbered>>

NoArgs == [na |-> NaNotGiven, strip_colnames |-> TRUE, out |-> None]

NoInfo == [path |-> PathOf(<<>>, <<>>), header_length |-> 0, ffi |-> <<>>]

Init ==
    \E inp \in Inputs :
        /\ path = inp.path
        /\ fs = [p \in AllPaths |-> IF p = inp.path THEN inp.file ELSE NoFile]
        /\ orig = inp.file
        /\ clobbered = FALSE
        /\ info = NoInfo
        /\ pc = "new"
        /\ lastOp = "none"
        /\ lastArgs = NoArgs
        /\ result = None

\* ICARTTReader(path)
Construct ==
    /\ pc = "new"
    /\ lastOp' = "__init__"
    /\ lastArgs' = NoArgs
    /\ IF read_info_ok(fs[path])
       THEN /\ info' = read_info(path, fs[path])
            /\ pc' = "ready"
            /\ result' = None
       ELSE /\ info' = NoInfo
            /\ pc' = "failed"
            /\ result' = Raised("ValueError")
    /\ UNCHANGED <<fs, path, orig, clobbered>>

\* mutant of Reads: the method stores the skiprows it computed (the header
\* length less one) back into self.info
Reads_StoresSkiprows(op, args, value) ==
    /\ pc = "ready"
    /\ lastOp' = op
    /\ lastArgs' = args
    /\ result' = value
    /\ info' = [info EXCEPT !.header_length = Max(@ - 1, 0)]
    /\ UNCHANGED <<fs, path, pc, orig, clobbered>>

\* a method that only reads
Reads(op, args, value) ==
    /\ pc = "ready"
    /\ lastOp' = op
    /\ lastArgs' = args
    /\ result' = value
    /\ UNCHANGED <<fs, path, info, pc, orig, clobbered>>

ReadHeaderLines ==
    Reads("read_header_lines", NoArgs, read_header_lines(fs[path], info))

ReadMetadata ==
    Reads("read_metadata", NoArgs, read_metadata(fs[path], info))

ReadVariableDefs ==
    Reads("read_variable_defs", NoArgs, read_variable_defs(fs[path], info))

GuessMissingValues ==
    Reads("_guess_missing_values", NoArgs, guess_missing_values(fs[path], info))

ReadTable ==
    \E args \in TableArgs :
        Reads("read_table", args,
              read_table(fs[path], info, args.na, args.strip_colnames))

\* to_csv / to_parquet, called with the default na_values and
\* strip_colnames: read_table, then write the resolved destination
Export(op, suffix) ==
    \E out \in OutArgs(path) :
        LET df == read_table(fs[path], info, NaNotGiven, TRUE)
            dest == out_path(path, out, suffix)
            text == IF op = "to_csv" THEN csv_text(df) ELSE parquet_text(df)
        IN  /\ pc = "ready"
            /\ lastOp' = op
            /\ lastArgs' = [na |-> NaNotGiven, strip_colnames |-> TRUE, out |-> out]
            /\ IF IsRaised(df)
               THEN /\ result' = df
                    /\ fs' = fs
                    /\ clobbered' = clobbered
               ELSE /\ result' = dest
                    /\ fs' = [fs EXCEPT ![dest] = text]
                    /\ clobbered' = (clobbered \/ dest = path)
            /\ UNCHANGED <<path, info, pc, orig>>

ToCsv == Export("to_csv", CsvSuffix)

ToParquet == Export("to_parquet", ParquetSuffix)

Next ==
    \/ Construct
    \/ ReadHeaderLines
    \/ ReadMetadata
    \/ ReadVariableDefs
    \/ GuessMissingValues
    \/ ReadTable
    \/ ToCsv
    \/ ToParquet

Spec == Init /\ [][Next]_vars

----------------------------------------------------------------------------
(* Properties                                                              *)

\* the file self.path names now
Cur == fs[path]

\* N and M: the declared header length and the number of lines of the file
N == info.header_length

M == Len(Cur.lines)

\* how many lines of the file belong to the header
HeaderCount == Min(Max(N, 0), M)

\* the tokens of the file's first line, as the format describes it
FirstTokens == split(IF orig.lines = <<>> THEN <<>> ELSE orig.lines[1], ",")

\* C1: a constructed reader holds header_length >= 1; construction fails on
\* a first line with fewer than two tokens or whose first token is not a
\* valid header length (zero, negative, or no integer).
C1_HeaderLengthAtLeastOne ==
    /\ pc = "ready" => info.header_length >= 1
    /\ pc # "new" /\ Len(FirstTokens) < 2 => pc = "failed"
    /\ pc # "new" /\ ~int_ok(FirstTokens[1]) => pc = "failed"

\* C6: read_metadata returns a dict whose values are all non-empty, that
\* always has path and header_length, and that has the key of position i
\* (1..8) exactly when header line i exists and is non-empty after trimming.
C6_MetadataBestEffort ==
    lastOp = "read_metadata" =>
        /\ ~IsRaised(result)
        /\ \A k \in DOMAIN result : result[k] # <<>>
        /\ {"path", "header_length"} \subseteq DOMAIN result
        /\ DOMAIN result \subseteq MetaKeys
        /\ \A k \in DOMAIN MetaPosition :
              LET i == MetaPosition[k]
                  present == i < HeaderCount
                                 /\ \E j \in 1..Len(Cur.lines[i + 1]) :
                                        Cur.lines[i + 1][j] \notin Whitespace
              IN  /\ k \in DOMAIN result <=> present
                  /\ present => result[k] = strip(Cur.lines[i + 1])

\* C6 witness: metadata read from a header in which one mapped line is
\* blank and another holds text, and from a file with nothing after line 1
C6_Witness ==
    /\ lastOp = "read_metadata"
    /\ \/ /\ HeaderCount >= 9
          /\ "pi" \in DOMAIN result
          /\ "organization" \notin DOMAIN result
          /\ "data_description" \notin DOMAIN result
       \/ /\ M = 1
          /\ DOMAIN result = {"path", "header_length"}

\* C8: read_header_lines returns exactly min(N, M) lines, the first lines of
\* the file in order, none ending in a line terminator.
C8_HeaderLinesMinNM ==
    lastOp = "read_header_lines" =>
        /\ Len(result) = Min(N, M)
        /\ \A k \in 1..Len(result) :
              /\ result[k] = Cur.lines[k]
              /\ result[k] = <<>> \/ result[k][Len(result[k])] # "\n"

\* the texts of the scenario's two entries
TextTEMP == <<"T", "E", "M", "P">>

TextDegC == <<"d", "e", "g", "C">>

TextAmbient ==
    <<"A", "m", "b", "i", "e", "n", "t", " ", "t", "e", "m", "p", "e", "r",
      "a", "t", "u", "r", "e">>

TextPRES == <<"P", "R", "E", "S">>

TextHPa == <<"h", "P", "a">>

EntryTEMP ==
    [name |-> TextTEMP, unit |-> TextDegC, description |-> TextAmbient,
     missing |-> None]

EntryPRES ==
    [name |-> TextPRES, unit |-> TextHPa, description |-> None,
     missing |-> None]

\* the scenario's file: the given first line, "2" at index 9, the two
\* definition lines at indices 12 and 13
Scenario(first) ==
    /\ M >= 14
    /\ Cur.lines[1] = first
    /\ Cur.lines[10] = LineCount2
    /\ Cur.lines[13] = LineTemp
    /\ Cur.lines[14] = LinePres

\* C2: on the scenario's file with first line "13,1001", read_variable_defs
\* returns the TEMP entry and the PRES entry, in this order.
C2_ScenarioTwoEntries ==
    lastOp = "read_variable_defs" /\ Scenario(First13) =>
        result = <<EntryTEMP, EntryPRES>>

\* C2 as amended: with first line "13,1001" the header ends at index 12, so
\* only the TEMP entry is returned; the two entries are returned when the
\* first line is "14,1001".
C2_ScenarioHeaderBound ==
    lastOp = "read_variable_defs" =>
        /\ Scenario(First13) => result = <<EntryTEMP>>
        /\ Scenario(First14) => result = <<EntryTEMP, EntryPRES>>

C2_Witness ==
    /\ lastOp = "read_variable_defs"
    /\ Scenario(First13)
    /\ Len(result) = 1

\* the parsed count of line index 9, where the header has one
CountLine == Cur.lines[VarCountIndex + 1]

C5_BlockLength ==
    lastOp = "read_variable_defs" =>
        IF HeaderCount < 11 \/ ~int_ok(CountLine)
        THEN Len(result) = 0
        ELSE Len(result) =
                 Cardinality({i \in 12..(12 + int(CountLine) - 1) : i < HeaderCount})

\* the header lines _guess_missing_values scans
ScannedCount == Min(HeaderCount, ScanLimit)

\* the whitespace/comma-separated tokens of line i
Tokens(i) == split_ws(replace(Cur.lines[i], ",", " "))

\* a token that starts with + or -, continues with digits only, and has
\* magnitude >= 999
Qualifies(tok) ==
    /\ Len(tok) >= 2
    /\ tok[1] \in {"+", "-"}
    /\ \A k \in 2..Len(tok) : tok[k] \in DigitSet
    /\ DigitsValue(Tail(tok), 0) >= 999

TokenValue(tok) ==
    IF tok[1] = "-" THEN -DigitsValue(Tail(tok), 0) ELSE DigitsValue(Tail(tok), 0)

\* the positions <<line, token>> of the qualifying tokens of the scanned lines
QualTokens ==
    UNION {{<<i, j>> : j \in {j \in 1..Len(Tokens(i)) : Qualifies(Tokens(i)[j])}} :
               i \in 1..ScannedCount}

ValueAt(pos) == TokenValue(Tokens(pos[1])[pos[2]])

QualValues == {ValueAt(pos) : pos \in QualTokens}

Before(p, q) == p[1] < q[1] \/ (p[1] = q[1] /\ p[2] < q[2])

\* where value v occurs first
FirstPos(v) ==
    CHOOSE pos \in QualTokens :
        /\ ValueAt(pos) = v
        /\ \A q \in QualTokens : ValueAt(q) = v => q = pos \/ Before(pos, q)

\* seq holds exactly the qualifying integers, each once, in order of first
\* occurrence
InFirstOccurrenceOrder(seq) ==
    /\ {seq[i] : i \in 1..Len(seq)} = QualValues
    /\ \A i, j \in 1..Len(seq) : i < j =>
          seq[i] # seq[j] /\ Before(FirstPos(seq[i]), FirstPos(seq[j]))

\* C7: the heuristic returns the fallback list if and only if the scanned
\* header lines hold no qualifying token; otherwise exactly the qualifying
\* integers, each once, in order of first occurrence.
C7_FallbackIffNoToken ==
    lastOp = "_guess_missing_values" =>
        /\ result = CommonSentinels <=> QualTokens = {}
        /\ QualTokens # {} => InFirstOccurrenceOrder(result)

\* C7 as amended: the fallback list is returned if the scanned header lines
\* hold no qualifying token; otherwise exactly the qualifying integers, each
\* once, in order of first occurrence (which can be the fallback list
\* itself, when the header spells it out).
C7_FallbackIfNoToken ==
    lastOp = "_guess_missing_values" =>
        /\ QualTokens = {} => result = CommonSentinels
        /\ QualTokens # {} => InFirstOccurrenceOrder(result)

\* C7 witness: a header with a repeated qualifying value and non-qualifying
\* signed tokens, and a header whose token lies beyond the scanned lines
C7_Witness ==
    /\ lastOp = "_guess_missing_values"
    /\ \/ /\ result = <<1013, -999>>
          /\ Cardinality(QualTokens) = 3
       \/ /\ HeaderCount > ScanLimit
          /\ result = CommonSentinels

\* the data header row is at line header_length and every line below it is
\* a row with one cell per column
DataLayout ==
    /\ N >= 1
    /\ N <= M
    /\ Cur.lines[N] = LineColumns
    /\ \A k \in (N + 1)..M : Len(split(Cur.lines[k], ",")) = 3

\* the raw text of cell j of data row i
RawCell(i, j) == split(Cur.lines[N + i], ",")[j]

TextMinus9999 == <<"-", "9", "9", "9", "9">>

HeaderSentinels ==
    IF QualTokens = {}
    THEN {CommonSentinels[i] : i \in 1..Len(CommonSentinels)}
    ELSE QualValues

SentinelTexts ==
    {str(v) : v \in HeaderSentinels} \cup {str(v) \o <<".", "0">> : v \in HeaderSentinels}

Fresh == read_info(path, orig)

\* C9: on an unchanged input file the reader's FormatInfo is the one
\* computed at construction, and every operation returns what it returns
\* on a freshly constructed reader, whatever was called before.
C9_ReadsArePure ==
    pc = "ready" =>
        /\ info = Fresh
        /\ Cur = orig =>
              /\ lastOp = "read_header_lines" =>
                    result = read_header_lines(orig, Fresh)
              /\ lastOp = "read_metadata" => result = read_metadata(orig, Fresh)
              /\ lastOp = "read_variable_defs" =>
                    result = read_variable_defs(orig, Fresh)
              /\ lastOp = "_guess_missing_values" =>
                    result = guess_missing_values(orig, Fresh)
              /\ lastOp = "read_table" =>
                    result = read_table(orig, Fresh, lastArgs.na,
                                        lastArgs.strip_colnames)

\* C9 witness: a read after an earlier call (the export that wrote a.csv)
C9_Witness ==
    /\ pc = "ready"
    /\ lastOp = "read_variable_defs"
    /\ Len(result) = 2
    /\ path.suffix = IctSuffix
    /\ fs[with_suffix(path, CsvSuffix)].exists
    /\ Cur = orig

Exported == lastOp \in {"to_csv", "to_parquet"} /\ ~IsRaised(result)

\* C10: the destination an export resolves always differs from the input
\* path, so the input file keeps its contents.
C10_InputNeverWritten ==
    /\ Exported => result # path
    /\ Cur = orig

\* C10 as amended: an export resolves the explicit destination when one is
\* given and the input path with the suffix replaced otherwise, and writes
\* there; the input file keeps its contents as long as no export resolved
\* to the input path, which happens when the explicit destination names it
\* or when the destination is omitted and the input path already has the
\* export's suffix.
C10_InputWrittenOnlyWhenResolved ==
    /\ Exported =>
          LET suffix == IF lastOp = "to_csv" THEN CsvSuffix ELSE ParquetSuffix
          IN  /\ lastArgs.out = None =>
                    result.stem = path.stem /\ result.suffix = suffix
              /\ lastArgs.out # None => path_str(result) = lastArgs.out
              /\ result = path <=>
                    \/ lastArgs.out = path_str(path)
                    \/ lastArgs.out = None /\ path.suffix = suffix
              /\ fs[result].exists
              /\ result = path => clobbered
    /\ ~clobbered => Cur = orig

\* C10 witness: the omitted destination of to_csv on a.ict; a.csv is
\* written, a.ict is not
C10_Witness ==
    /\ Exported
    /\ lastOp = "to_csv"
    /\ lastArgs.out = None
    /\ result # path
    /\ fs[result].lines[1] = LineColumns
    /\ Cur = orig
    /\ ~clobbered

====
